---- MODULE Spec2Model ----
(***************************************************************************)
(* Model of flx_module/funcx_federated.py: the round loop of               *)
(* federated_learning (fan-out submit, in-order join on t.result(),        *)
(* aggregation by np.mean / np.average, set_weights, evaluation, sleep)    *)
(* and the pure function get_edge_weights.                                 *)
(*                                                                         *)
(* Numbers: numpy float results are modelled exactly as normalised         *)
(* fractions <<n, d>> with d > 0; the IEEE special values that numpy       *)
(* produces on a division by zero are <<0,0>> (nan), <<1,0>> (inf) and     *)
(* <<-1,0>> (-inf).                                                        *)
(***************************************************************************)
EXTENDS Integers, Sequences, FiniteSets, TLC

\* ---- bounds of the model ----
NumEndpoints == 2       \* longest endpoint_ids list
MaxLoops == 2           \* largest value of the loops argument
MaxCount == 2           \* largest samples_count an endpoint reports
MaxLen == 3             \* longest sample_counts array given to get_edge_weights
\* values of the federated_mode argument: the two modes and another string
Modes == {"average", "weighted_average", "median"}

VARIABLES
    pc,              \* position of the controller in federated_learning
    federated_mode,  \* argument
    loops,           \* argument
    endpoint_ids,    \* argument: list of endpoints
    has_test_data,   \* arguments x_test and y_test are both given
    evaluation_function, \* argument: "eval_model" (the default) or "None"
    global_model,    \* [json, weights]: the Keras model object
    i,               \* loop variable of `for i in range(loops)`
    json_config,     \* snapshot of the architecture (line 188)
    gm_weights_np,   \* snapshot of the weights (lines 189-190)
    jobs,            \* futures known to the executor
    tasks,           \* list of the round's futures (indices into jobs)
    model_weights,   \* list built by the comprehension of line 206
    sample_counts,   \* line 213
    edge_weights,    \* line 214
    average_weights, \* lines 209 / 217
    raised,          \* exception that left federated_learning, or none
    first_done,      \* the round's future that resolved first (0: none yet)
    calls,           \* per endpoint: submissions received
    dispatches,      \* rounds whose fan-out has started
    commits,         \* set_weights calls
    evaluations,     \* evaluation_function calls
    sleeps           \* time.sleep calls

vars == <<pc, federated_mode, loops, endpoint_ids, has_test_data,
          evaluation_function, global_model, i, json_config, gm_weights_np,
          jobs, tasks, model_weights, sample_counts, edge_weights,
          average_weights, raised, first_done, calls, dispatches, commits,
          evaluations, sleeps>>

\* ---- exact arithmetic standing for numpy floats ----
Abs(x) == IF x < 0 THEN -x ELSE x

Sgn(x) == IF x < 0 THEN -1 ELSE IF x = 0 THEN 0 ELSE 1

RECURSIVE GCD(_, _)
GCD(a, b) == IF b = 0 THEN a ELSE GCD(b, a % b)

NaN == <<0, 0>>

\* The operators below name each argument once, in a set of one element,
\* so that an argument that is itself a long expression is evaluated once.
Only(S) == CHOOSE r \in S : TRUE

\* the float with numerator n and denominator d >= 0
Frac(n, d) ==
    Only({IF y = 0 THEN <<Sgn(x), 0>>
          ELSE Only({<<Sgn(x) * (Abs(x) \div g), y \div g>> :
                        g \in {GCD(Abs(x), y)}}) :
          x \in {n}, y \in {d}})

FromInt(k) == <<k, 1>>

IsFinite(a) == a[2] > 0

FMul(a, b) == Only({Frac(x[1] * y[1], x[2] * y[2]) : x \in {a}, y \in {b}})

FAdd(a, b) ==
    Only({IF x[2] = 0 /\ y[2] = 0
          THEN (IF x = y THEN x ELSE NaN)
          ELSE Frac(x[1] * y[2] + y[1] * x[2], x[2] * y[2]) :
          x \in {a}, y \in {b}})

FRecip(b) ==
    Only({IF y[1] < 0 THEN <<-y[2], -y[1]>> ELSE <<y[2], y[1]>> : y \in {b}})

\* numpy true division: x/0 is nan, inf or -inf (a warning, no exception)
FDiv(a, b) ==
    Only({Frac(x[1] * r[1], x[2] * r[2]) : x \in {a}, r \in {FRecip(b)}})

RECURSIVE FSum(_)
FSum(s) ==
    Only({IF x = <<>> THEN FromInt(0) ELSE FAdd(x[1], FSum(Tail(x))) :
          x \in {s}})

\* parameter sets (two tensor positions) a training job can return
TrainedWeights == {<<FromInt(1), FromInt(3)>>, <<FromInt(3), FromInt(1)>>}

\* weights of the model handed to federated_learning
InitialWeights == <<FromInt(0), FromInt(0)>>

\* sample counts an endpoint can report (x_train.shape[0]): none, one, the
\* largest
SampleCounts == {0, 1, MaxCount}

\* arrays get_edge_weights is called with when used on its own
EdgeInputs == UNION {[1..n -> (0 - 1)..MaxCount] : n \in 1..MaxLen}

\* ---- get_edge_weights (lines 10-26) ----
RECURSIVE py_sum(_)
py_sum(s) == IF s = <<>> THEN 0 ELSE s[1] + py_sum(Tail(s))

\* variant: divides by the number of counts instead of their sum
get_edge_weights_by_length(counts) ==
    [k \in 1..Len(counts) |-> FDiv(FromInt(counts[k]), FromInt(Len(counts)))]

get_edge_weights(counts) ==
    LET total == py_sum(counts)
    IN [k \in 1..Len(counts) |-> FDiv(FromInt(counts[k]), FromInt(total))]

\* ---- numpy aggregation (lines 209 and 217) ----
Column(a, p) == [k \in 1..Len(a) |-> a[k][p]]

TensorIdx(a) == 1..Len(a[1])

\* variant: np.sum(a, axis=0), the division by the number of rows left out
np_mean_undivided(a) == [p \in TensorIdx(a) |-> FSum(Column(a, p))]

\* np.mean(a, axis=0)
np_mean(a) ==
    [p \in TensorIdx(a) |-> FDiv(FSum(Column(a, p)), FromInt(Len(a)))]

\* np.average raises ZeroDivisionError when the weights sum to 0.0
np_average_raises(w) == FSum(w) = FromInt(0)

\* variant: the weights argument is dropped
np_average_unweighted(a, w) ==
    [p \in TensorIdx(a) |-> FDiv(FSum(Column(a, p)), FromInt(Len(a)))]

\* np.average(a, weights=w, axis=0): sum(a*w) / sum(w)
np_average(a, w) ==
    [p \in TensorIdx(a) |->
        FDiv(FSum([k \in 1..Len(a) |-> FMul(a[k][p], w[k])]), FSum(w))]

\* ---- federated_learning (lines 152-233) ----
NoError == [kind |-> "none", task |-> 0]

NoResult == [model_weights |-> <<>>, samples_count |-> 0]

\* line 228: x_test and y_test are given and evaluation_function is callable
can_evaluate == has_test_data /\ evaluation_function # "None"

\* variant: range(loops + 1)
LoopContinues_inclusive == i <= loops

\* `for i in range(loops)`: another iteration follows
LoopContinues == i < loops

\* variant: the comprehension goes through reversed(tasks)
NextAwaited_reversed == tasks[Len(tasks) - Len(model_weights)]

\* the future whose result() the comprehension of line 206 calls next
NextAwaited == tasks[Len(model_weights) + 1]

\* variant: the join stops at the first result
AllAwaited_first == Len(model_weights) >= 1

\* the comprehension of line 206 has gone through all of tasks
AllAwaited == Len(model_weights) = Len(tasks)

Init ==
    /\ pc = "loop"
    /\ federated_mode \in Modes
    /\ loops \in 0..MaxLoops
    /\ endpoint_ids \in {[k \in 1..n |-> k] : n \in 1..NumEndpoints}
    /\ has_test_data \in BOOLEAN
    /\ evaluation_function \in (IF has_test_data THEN {"eval_model", "None"}
                                                   ELSE {"eval_model"})
    /\ global_model = [json |-> "arch", weights |-> InitialWeights]
    /\ i = 0
    /\ json_config = ""
    /\ gm_weights_np = <<>>
    /\ jobs = <<>>
    /\ tasks = <<>>
    /\ model_weights = <<>>
    /\ sample_counts = <<>>
    /\ edge_weights = <<>>
    /\ average_weights = <<>>
    /\ raised = NoError
    /\ first_done = 0
    /\ calls = [e \in 1..NumEndpoints |-> 0]
    /\ dispatches = 0
    /\ commits = 0
    /\ evaluations = 0
    /\ sleeps = 0

\* variant: the snapshot of the weights is taken once, in the first iteration
RoundStart_snapshot_once ==
    /\ pc = "loop"
    /\ LoopContinues
    /\ json_config' = global_model.json
    /\ gm_weights_np' = IF i = 0 THEN global_model.weights ELSE gm_weights_np
    /\ tasks' = <<>>
    /\ jobs' = SelectSeq(jobs, LAMBDA j : j.state = "pending")
    /\ model_weights' = <<>>
    /\ sample_counts' = <<>>
    /\ edge_weights' = <<>>
    /\ average_weights' = <<>>
    /\ first_done' = 0
    /\ dispatches' = dispatches + 1
    /\ pc' = "submit"
    /\ UNCHANGED <<federated_mode, loops, endpoint_ids, has_test_data,
                   evaluation_function,
                   global_model, i, raised, calls, commits, evaluations,
                   sleeps>>

\* lines 186-194: next iteration, snapshot of the model, new task list.
\* The locals of the previous iteration are dead here (each is assigned
\* before it is read again) and are cleared; resolved futures of the
\* previous list are no longer referenced.
RoundStart ==
    /\ pc = "loop"
    /\ LoopContinues
    /\ json_config' = global_model.json
    /\ gm_weights_np' = global_model.weights
    /\ tasks' = <<>>
    /\ jobs' = SelectSeq(jobs, LAMBDA j : j.state = "pending")
    /\ model_weights' = <<>>
    /\ sample_counts' = <<>>
    /\ edge_weights' = <<>>
    /\ average_weights' = <<>>
    /\ first_done' = 0
    /\ dispatches' = dispatches + 1
    /\ pc' = "submit"
    /\ UNCHANGED <<federated_mode, loops, endpoint_ids, has_test_data,
                   evaluation_function,
                   global_model, i, raised, calls, commits, evaluations,
                   sleeps>>

\* lines 197-203: one fx.submit per entry of endpoint_ids, in list order
Submit ==
    /\ pc = "submit"
    /\ LET e == endpoint_ids[Len(tasks) + 1]
           job == [round |-> i, endpoint |-> e, state |-> "pending",
                   json_model_config |-> json_config,
                   global_model_weights |-> gm_weights_np,
                   result |-> NoResult]
       IN /\ jobs' = Append(jobs, job)
          /\ tasks' = Append(tasks, Len(jobs) + 1)
          /\ calls' = [calls EXCEPT ![e] = @ + 1]
          /\ pc' = IF Len(tasks) + 1 = Len(endpoint_ids)
                    THEN "collect" ELSE "submit"
    /\ UNCHANGED <<federated_mode, loops, endpoint_ids, has_test_data,
                   evaluation_function,
                   global_model, i, json_config, gm_weights_np,
                   model_weights, sample_counts, edge_weights,
                   average_weights, raised, first_done, dispatches, commits,
                   evaluations, sleeps>>

\* an endpoint finishes training_function (line 150) and the future resolves
JobSucceeds ==
    \E k \in 1..Len(jobs), w \in TrainedWeights, c \in SampleCounts :
        /\ jobs[k].state = "pending"
        /\ jobs' = [jobs EXCEPT ![k].state = "done",
                                 ![k].result = [model_weights |-> w,
                                                samples_count |-> c]]
        /\ first_done' = IF first_done = 0 THEN k ELSE first_done
        /\ UNCHANGED <<pc, federated_mode, loops, endpoint_ids, has_test_data,
                   evaluation_function,
                       global_model, i, json_config, gm_weights_np, tasks,
                       model_weights, sample_counts, edge_weights,
                       average_weights, raised, calls, dispatches, commits,
                       evaluations, sleeps>>

\* training_function raises on the endpoint: the future holds the exception
JobFails ==
    \E k \in 1..Len(jobs) :
        /\ jobs[k].state = "pending"
        /\ jobs' = [jobs EXCEPT ![k].state = "failed"]
        /\ first_done' = IF first_done = 0 THEN k ELSE first_done
        /\ UNCHANGED <<pc, federated_mode, loops, endpoint_ids, has_test_data,
                   evaluation_function,
                       global_model, i, json_config, gm_weights_np, tasks,
                       model_weights, sample_counts, edge_weights,
                       average_weights, raised, calls, dispatches, commits,
                       evaluations, sleeps>>

\* line 206: t.result() returns; blocks while the future is pending
AwaitResult ==
    /\ pc = "collect"
    /\ ~AllAwaited
    /\ jobs[NextAwaited].state = "done"
    /\ model_weights' = Append(model_weights,
                                jobs[NextAwaited].result.model_weights)
    /\ UNCHANGED <<pc, federated_mode, loops, endpoint_ids, has_test_data,
                   evaluation_function,
                   global_model, i, json_config, gm_weights_np, jobs, tasks,
                   sample_counts, edge_weights, average_weights, raised,
                   first_done, calls, dispatches, commits, evaluations, sleeps>>

\* variant: the exception is caught and the snapshot stands in for the result
AwaitRaises_swallowed ==
    /\ pc = "collect"
    /\ ~AllAwaited
    /\ jobs[NextAwaited].state = "failed"
    /\ model_weights' = Append(model_weights, gm_weights_np)
    /\ UNCHANGED <<pc, federated_mode, loops, endpoint_ids, has_test_data,
                   evaluation_function,
                   global_model, i, json_config, gm_weights_np, jobs, tasks,
                   sample_counts, edge_weights, average_weights, raised,
                   first_done, calls, dispatches, commits, evaluations, sleeps>>

\* variant: a failed job is submitted again instead of raising
AwaitRaises_retry ==
    /\ pc = "collect"
    /\ ~AllAwaited
    /\ jobs[NextAwaited].state = "failed"
    /\ jobs' = [jobs EXCEPT ![NextAwaited].state = "pending"]
    /\ calls' = [calls EXCEPT ![jobs[NextAwaited].endpoint] = @ + 1]
    /\ UNCHANGED <<pc, federated_mode, loops, endpoint_ids, has_test_data,
                   evaluation_function, global_model, i, json_config,
                   gm_weights_np, tasks, model_weights, sample_counts,
                   edge_weights, average_weights, raised, first_done,
                   dispatches, commits, evaluations, sleeps>>

\* line 206: t.result() re-raises the exception of a failed future
AwaitRaises ==
    /\ pc = "collect"
    /\ ~AllAwaited
    /\ jobs[NextAwaited].state = "failed"
    /\ raised' = [kind |-> "RemoteError", task |-> NextAwaited]
    /\ pc' = "aborted"
    /\ UNCHANGED <<federated_mode, loops, endpoint_ids, has_test_data,
                   evaluation_function,
                   global_model, i, json_config, gm_weights_np, jobs, tasks,
                   model_weights, sample_counts, edge_weights,
                   average_weights, first_done, calls, dispatches,
                   commits, evaluations, sleeps>>

\* line 213: [t.result()["samples_count"] for t in tasks], all resolved
CollectedCounts == [k \in 1..Len(tasks) |-> jobs[tasks[k]].result.samples_count]

\* lines 208-217: the two recognised modes
Aggregate ==
    /\ pc = "collect"
    /\ AllAwaited
    /\ federated_mode \in {"average", "weighted_average"}
    /\ LET weighted == federated_mode = "weighted_average"
           fractions == get_edge_weights(CollectedCounts)
           fails == weighted /\ np_average_raises(fractions)
       IN /\ sample_counts' = IF weighted THEN CollectedCounts
                                           ELSE sample_counts
          /\ edge_weights' = IF weighted THEN fractions ELSE edge_weights
          /\ average_weights' =
                IF fails THEN average_weights
                ELSE IF weighted THEN np_average(model_weights, fractions)
                ELSE np_mean(model_weights)
          /\ raised' = IF fails
                       THEN [kind |-> "ZeroDivisionError", task |-> 0]
                       ELSE raised
          /\ pc' = IF fails THEN "aborted" ELSE "commit"
    /\ UNCHANGED <<federated_mode, loops, endpoint_ids, has_test_data,
                   evaluation_function,
                   global_model, i, json_config, gm_weights_np, jobs, tasks,
                   model_weights, first_done, calls, dispatches, commits,
                   evaluations, sleeps>>

\* lines 219-221: any other mode raises, after the results were collected
RaiseUnrecognizedMode ==
    /\ pc = "collect"
    /\ AllAwaited
    /\ federated_mode \notin {"average", "weighted_average"}
    /\ raised' = [kind |-> "UnrecognizedMode", task |-> 0]
    /\ pc' = "aborted"
    /\ UNCHANGED <<federated_mode, loops, endpoint_ids, has_test_data,
                   evaluation_function,
                   global_model, i, json_config, gm_weights_np, jobs, tasks,
                   model_weights, sample_counts, edge_weights,
                   average_weights, first_done, calls, dispatches, commits,
                   evaluations, sleeps>>

\* variant: the model object is built anew from the aggregate
Commit_rebuilt ==
    /\ pc = "commit"
    /\ global_model' = [json |-> "rebuilt", weights |-> average_weights]
    /\ commits' = commits + 1
    /\ pc' = "evaluate"
    /\ UNCHANGED <<federated_mode, loops, endpoint_ids, has_test_data,
                   evaluation_function, i, json_config, gm_weights_np, jobs,
                   tasks, model_weights, sample_counts, edge_weights,
                   average_weights, raised, first_done, calls, dispatches,
                   evaluations, sleeps>>

\* line 224: global_model.set_weights(average_weights)
Commit ==
    /\ pc = "commit"
    /\ global_model' = [global_model EXCEPT !.weights = average_weights]
    /\ commits' = commits + 1
    /\ pc' = "evaluate"
    /\ UNCHANGED <<federated_mode, loops, endpoint_ids, has_test_data,
                   evaluation_function, i,
                   json_config, gm_weights_np, jobs, tasks, model_weights,
                   sample_counts, edge_weights, average_weights, raised,
                   first_done, calls, dispatches, evaluations, sleeps>>

\* variant: the call of the evaluation is left out
Evaluate_skipped ==
    /\ pc = "evaluate"
    /\ pc' = "sleep"
    /\ UNCHANGED <<federated_mode, loops, endpoint_ids, has_test_data,
                   evaluation_function,
                   global_model, i, json_config, gm_weights_np, jobs, tasks,
                   model_weights, sample_counts, edge_weights,
                   average_weights, raised, first_done, calls, dispatches,
                   commits, evaluations, sleeps>>

\* lines 228-229: the evaluation is called when it can be, and returns
Evaluate ==
    /\ pc = "evaluate"
    /\ evaluations' = IF can_evaluate THEN evaluations + 1 ELSE evaluations
    /\ pc' = "sleep"
    /\ UNCHANGED <<federated_mode, loops, endpoint_ids, has_test_data,
                   evaluation_function,
                   global_model, i, json_config, gm_weights_np, jobs, tasks,
                   model_weights, sample_counts, edge_weights,
                   average_weights, raised, first_done, calls, dispatches,
                   commits, sleeps>>

\* variant: the weights of the snapshot are restored before the exception
\* leaves
EvaluateRaises_rollback ==
    /\ pc = "evaluate"
    /\ can_evaluate
    /\ evaluations' = evaluations + 1
    /\ global_model' = [global_model EXCEPT !.weights = gm_weights_np]
    /\ raised' = [kind |-> "EvaluationError", task |-> 0]
    /\ pc' = "aborted"
    /\ UNCHANGED <<federated_mode, loops, endpoint_ids, has_test_data,
                   evaluation_function, i, json_config, gm_weights_np, jobs,
                   tasks, model_weights, sample_counts, edge_weights,
                   average_weights, first_done, calls, dispatches, commits,
                   sleeps>>

\* line 229: evaluation_function raises; nothing catches it
EvaluateRaises ==
    /\ pc = "evaluate"
    /\ can_evaluate
    /\ evaluations' = evaluations + 1
    /\ raised' = [kind |-> "EvaluationError", task |-> 0]
    /\ pc' = "aborted"
    /\ UNCHANGED <<federated_mode, loops, endpoint_ids, has_test_data,
                   evaluation_function,
                   global_model, i, json_config, gm_weights_np, jobs, tasks,
                   model_weights, sample_counts, edge_weights,
                   average_weights, first_done, calls, dispatches, commits,
                   sleeps>>

\* variant: the pause is made only when another round follows
Sleep_between_rounds ==
    /\ pc = "sleep"
    /\ sleeps' = IF i + 1 < loops THEN sleeps + 1 ELSE sleeps
    /\ i' = i + 1
    /\ pc' = "loop"
    /\ UNCHANGED <<federated_mode, loops, endpoint_ids, has_test_data,
                   evaluation_function, global_model, json_config,
                   gm_weights_np, jobs, tasks, model_weights, sample_counts,
                   edge_weights, average_weights, raised, first_done, calls,
                   dispatches, commits, evaluations>>

\* line 231, then the loop variable advances (time_interval is a duration,
\* not negative, so time.sleep returns)
Sleep ==
    /\ pc = "sleep"
    /\ sleeps' = sleeps + 1
    /\ i' = i + 1
    /\ pc' = "loop"
    /\ UNCHANGED <<federated_mode, loops, endpoint_ids, has_test_data,
                   evaluation_function,
                   global_model, json_config, gm_weights_np, jobs, tasks,
                   model_weights, sample_counts, edge_weights,
                   average_weights, raised, first_done, calls, dispatches,
                   commits, evaluations>>

\* line 233: the loop is over, return global_model
Return ==
    /\ pc = "loop"
    /\ ~LoopContinues
    /\ pc' = "done"
    /\ UNCHANGED <<federated_mode, loops, endpoint_ids, has_test_data,
                   evaluation_function,
                   global_model, i, json_config, gm_weights_np, jobs, tasks,
                   model_weights, sample_counts, edge_weights,
                   average_weights, raised, first_done, calls, dispatches,
                   commits, evaluations, sleeps>>

Next ==
    \/ RoundStart
    \/ Submit
    \/ JobSucceeds
    \/ JobFails
    \/ AwaitResult
    \/ AwaitRaises
    \/ Aggregate
    \/ RaiseUnrecognizedMode
    \/ Commit
    \/ Evaluate
    \/ EvaluateRaises
    \/ Sleep
    \/ Return

Spec == Init /\ [][Next]_vars

\* ---- runs in which every job resolves successfully ----
\* the arguments: a recognised mode, the default evaluation function
InitLive ==
    /\ Init
    /\ federated_mode \in {"average", "weighted_average"}
    /\ evaluation_function = "eval_model"

\* the steps of the controlling thread (no future fails, so line 206 never
\* raises, and lines 219-221 are not reached)
Controller ==
    \/ RoundStart
    \/ Submit
    \/ AwaitResult
    \/ Aggregate
    \/ Commit
    \/ Evaluate
    \/ EvaluateRaises
    \/ Sleep
    \/ Return

NextLive == JobSucceeds \/ Controller

\* the thread keeps running, and every submitted job is eventually finished
SpecLive ==
    InitLive /\ [][NextLive]_vars /\ WF_vars(Controller) /\ WF_vars(JobSucceeds)

\* ---- get_edge_weights called on its own ----
InitEdge ==
    /\ pc = "edge_call"
    /\ sample_counts \in EdgeInputs
    /\ federated_mode = "weighted_average"
    /\ loops = 0
    /\ endpoint_ids = <<>>
    /\ has_test_data = FALSE
    /\ evaluation_function = "eval_model"
    /\ global_model = [json |-> "arch", weights |-> InitialWeights]
    /\ i = 0
    /\ json_config = ""
    /\ gm_weights_np = <<>>
    /\ jobs = <<>>
    /\ tasks = <<>>
    /\ model_weights = <<>>
    /\ edge_weights = <<>>
    /\ average_weights = <<>>
    /\ raised = NoError
    /\ first_done = 0
    /\ calls = [e \in 1..NumEndpoints |-> 0]
    /\ dispatches = 0
    /\ commits = 0
    /\ evaluations = 0
    /\ sleeps = 0

\* lines 24-26: the call returns the fractions; nothing in it raises
EdgeCall ==
    /\ pc = "edge_call"
    /\ edge_weights' = get_edge_weights(sample_counts)
    /\ pc' = "edge_done"
    /\ UNCHANGED <<federated_mode, loops, endpoint_ids, has_test_data,
                   evaluation_function,
                   global_model, i, json_config, gm_weights_np, jobs, tasks,
                   model_weights, sample_counts, average_weights, raised,
                   first_done, calls, dispatches, commits, evaluations, sleeps>>

NextEdge == EdgeCall

SpecEdge == InitEdge /\ [][NextEdge]_vars

\* ======================= properties =======================
RoundTasks == 1..Len(tasks)

TaskJob(k) == jobs[tasks[k]]

AnyTaskFailed == \E k \in RoundTasks : TaskJob(k).state = "failed"

AllTasksDone ==
    /\ Len(tasks) = Len(endpoint_ids)
    /\ \A k \in RoundTasks : TaskJob(k).state = "done" /\ TaskJob(k).round = i

RECURSIVE Total(_)
Total(s) == IF s = <<>> THEN 0 ELSE Total(Tail(s)) + Head(s)

\* C1: when the mode is not one of the two recognised ones, the error is
\* raised before any job was submitted: every endpoint has seen zero calls.
C1_ModeErrorBeforeDispatch ==
    raised.kind = "UnrecognizedMode" => \A e \in DOMAIN calls : calls[e] = 0

\* C2: once a job of the round has failed, the round never aggregates or
\* commits and the model keeps the value it had when the round started; the
\* run that aborts on it reports the remote failure; after the abort nothing
\* more is dispatched and the model no longer changes.
C2_FailedRoundLeavesModel ==
    /\ [](AnyTaskFailed =>
            /\ pc \in {"submit", "collect", "aborted"}
            /\ global_model.weights = gm_weights_np
            /\ commits = i
            /\ (pc = "aborted" => raised.kind = "RemoteError"))
    /\ [][pc = "aborted" =>
            /\ pc' = "aborted"
            /\ dispatches' = dispatches
            /\ calls' = calls
            /\ global_model' = global_model]_vars

C2_Witness ==
    /\ pc = "aborted"
    /\ raised.kind = "RemoteError"
    /\ i = 1
    /\ global_model.weights # InitialWeights
    /\ Len(tasks) = 2
    /\ TaskJob(1).state = "done"
    /\ TaskJob(2).state = "failed"

\* C3: whenever the round has aggregated or committed, every endpoint of the
\* list has a future of this round and each of them resolved successfully.
C3_AggregateAfterAllResults ==
    (pc \in {"commit", "evaluate", "sleep"} \/ commits > i) => AllTasksDone

C3_Witness ==
    /\ commits = i + 1
    /\ Len(tasks) = 2
    /\ first_done = tasks[2]

\* C4: a run that returns after `loops` rounds has made exactly `loops`
\* dispatches and `loops` commits; commits and dispatches alternate, the
\* dispatch of a round first, and commits never exceed dispatches.
C4_OneCommitPerRound ==
    /\ [](/\ commits <= dispatches
           /\ dispatches <= commits + 1
           /\ (pc = "done" => dispatches = loops /\ commits = loops))
    /\ [][/\ (dispatches' # dispatches =>
                  dispatches' = dispatches + 1 /\ commits = dispatches)
           /\ (commits' # commits =>
                  commits' = commits + 1 /\ dispatches = commits')]_vars

C4_Witness == pc = "done" /\ commits = 2 /\ dispatches = 2

\* C5: position k of the collected parameter sets and of the collected
\* sample counts both come from the future submitted k-th, for the k-th
\* endpoint of the list, and the k-th weight is derived from that count.
C5_ResultsInSubmissionOrder ==
    /\ \A k \in 1..Len(model_weights) :
          /\ TaskJob(k).endpoint = endpoint_ids[k]
          /\ model_weights[k] = TaskJob(k).result.model_weights
    /\ \A k \in 1..Len(sample_counts) :
          /\ sample_counts[k] = TaskJob(k).result.samples_count
          /\ Len(edge_weights) = Len(sample_counts)
          /\ edge_weights[k] =
                FDiv(FromInt(TaskJob(k).result.samples_count),
                     FromInt(Total(sample_counts)))

C5_Witness ==
    /\ pc = "commit"
    /\ federated_mode = "weighted_average"
    /\ Len(tasks) = 2
    /\ first_done = tasks[2]
    /\ sample_counts = <<1, MaxCount>>
    /\ model_weights[1] # model_weights[2]

\* C6: every unresolved job belongs to the round being run, and jobs are in
\* flight only between the round's dispatch and its commit or abort.
C6_OneRoundInFlight ==
    \A k \in 1..Len(jobs) :
        jobs[k].state = "pending" =>
            /\ jobs[k].round = i
            /\ pc \in {"submit", "collect", "aborted"}
            /\ commits = i

C6_Witness ==
    /\ i = 1
    /\ Len(tasks) = 2
    /\ TaskJob(1).state = "pending"
    /\ TaskJob(2).state = "pending"

\* C7: the error that leaves the collection is that of the failed future
\* with the lowest submission index, and nothing is aggregated in a round
\* in which a future failed.
C7_FirstAwaitedFailure ==
    /\ raised.kind = "RemoteError" =>
          \E p \in RoundTasks :
              /\ tasks[p] = raised.task
              /\ TaskJob(p).state = "failed"
              /\ \A q \in 1..(p - 1) : TaskJob(q).state = "done"
    /\ AnyTaskFailed => average_weights = <<>> /\ sample_counts = <<>>

C7_Witness ==
    /\ raised.kind = "RemoteError"
    /\ Len(tasks) = 2
    /\ TaskJob(1).state = "failed"
    /\ TaskJob(2).state = "failed"
    /\ first_done = tasks[2]
    /\ raised.task = tasks[1]

\* C8: get_edge_weights fails, and returns no weights, when the counts sum
\* to zero or when one of them is negative.
C8_BadCountsRejected ==
    (/\ pc = "edge_done"
     /\ \/ Total(sample_counts) = 0
        \/ \E k \in 1..Len(sample_counts) : sample_counts[k] < 0)
    => (raised.kind # "none" /\ edge_weights = <<>>)

\* C9: in weighted mode a round whose sample counts sum to zero aborts with
\* an error and does not commit.
C9_ZeroSumRoundAborts ==
    (/\ federated_mode = "weighted_average"
     /\ sample_counts # <<>>
     /\ Total(sample_counts) = 0)
    => (pc = "aborted" /\ raised.kind # "none" /\ commits = i)

\* C10: for positive counts the result has the length and order of the
\* input, element k is count k over the total, no element is negative and
\* the elements sum to exactly 1.
C10_FractionsOfTotal ==
    (/\ pc = "edge_done"
     /\ \A k \in 1..Len(sample_counts) : sample_counts[k] > 0)
    => /\ Len(edge_weights) = Len(sample_counts)
       /\ \A k \in 1..Len(edge_weights) :
             /\ IsFinite(edge_weights[k])
             /\ edge_weights[k][1] >= 0
             /\ edge_weights[k][1] * Total(sample_counts) =
                   sample_counts[k] * edge_weights[k][2]
       /\ FSum(edge_weights) = FromInt(1)

C10_Witness ==
    /\ pc = "edge_done"
    /\ sample_counts = <<1, 2, 1>>
    /\ edge_weights = <<Frac(1, 4), Frac(1, 2), Frac(1, 4)>>

\* count k of the round times tensor p of the parameters of the same result
CountTimesValue(p) ==
    [k \in RoundTasks |->
        FMul(FromInt(TaskJob(k).result.samples_count),
             TaskJob(k).result.model_weights[p])]

ReturnedCounts == [k \in RoundTasks |-> TaskJob(k).result.samples_count]

ReturnedValues(p) == [k \in RoundTasks |-> TaskJob(k).result.model_weights[p]]

\* C11: in weighted mode with a positive total count, each tensor position
\* of the committed parameters is the sum over the endpoints of
\* count/total times the endpoint's value at that position (stated exactly:
\* committed value times total = sum of count times value).
C11_WeightedCommit ==
    (/\ federated_mode = "weighted_average"
     /\ commits = i + 1
     /\ Total(ReturnedCounts) > 0)
    => \A p \in DOMAIN global_model.weights :
          /\ IsFinite(global_model.weights[p])
          /\ FMul(global_model.weights[p], FromInt(Total(ReturnedCounts)))
                = FSum(CountTimesValue(p))

C11_Witness ==
    /\ federated_mode = "weighted_average"
    /\ commits = i + 1
    /\ ReturnedCounts = <<1, MaxCount>>
    /\ ReturnedValues(1) = <<FromInt(1), FromInt(3)>>
    /\ global_model.weights = <<Frac(1 + 3 * MaxCount, 1 + MaxCount),
                               Frac(3 + MaxCount, 1 + MaxCount)>>

\* C12: in average mode each tensor position of the committed parameters
\* is the arithmetic mean of the endpoints' values at that position,
\* whatever sample counts they report; the counts are not even read.
C12_UniformCommit ==
    (federated_mode = "average" /\ commits = i + 1)
    => /\ \A p \in DOMAIN global_model.weights :
             /\ IsFinite(global_model.weights[p])
             /\ FMul(global_model.weights[p], FromInt(Len(tasks)))
                   = FSum(ReturnedValues(p))
       /\ sample_counts = <<>>
       /\ edge_weights = <<>>

C12_Witness ==
    /\ federated_mode = "average"
    /\ commits = i + 1
    /\ ReturnedCounts = <<0, MaxCount>>
    /\ ReturnedValues(1) = <<FromInt(1), FromInt(3)>>
    /\ global_model.weights = <<FromInt(2), FromInt(2)>>

\* C13 as claimed: while a job of the round is unresolved the controller
\* is held before or at the join, with nothing committed and nothing raised,
\* whatever the other jobs did.
C13_HungJobStallsAlways ==
    \A k \in RoundTasks :
        TaskJob(k).state = "pending" =>
            /\ pc \in {"submit", "collect"}
            /\ commits = i
            /\ raised = NoError

\* C13, amended: while a job of the round is unresolved the round does not
\* commit and the run does not return; the controller is held before or at
\* the join unless a future submitted before the unresolved one has failed,
\* and an abort in that state is the failure of such an earlier future.
C13_HungJobStalls ==
    \A k \in RoundTasks :
        TaskJob(k).state = "pending" =>
            /\ commits = i
            /\ pc \in {"submit", "collect", "aborted"}
            /\ (pc = "aborted" =>
                  /\ raised.kind = "RemoteError"
                  /\ \E q \in 1..(k - 1) :
                        tasks[q] = raised.task /\ TaskJob(q).state = "failed")
            /\ ((\A q \in 1..(k - 1) : TaskJob(q).state # "failed") =>
                  pc \in {"submit", "collect"} /\ raised = NoError)

C13_Witness ==
    /\ pc = "collect"
    /\ Len(tasks) = 2
    /\ TaskJob(1).state = "pending"
    /\ TaskJob(2).state = "failed"
    /\ model_weights = <<>>

\* C14 as claimed: when every job resolves successfully and the mode is
\* recognised, the run eventually returns, after `loops` rounds.
C14_AlwaysReturns == <>(pc = "done" /\ dispatches = loops /\ commits = loops)

\* C14, amended: such a run eventually returns unless the evaluation
\* function raises; when it returns it has run exactly `loops` rounds and
\* the model holds the aggregate of the last round, or, for loops = 0, its
\* initial parameters with nothing dispatched.
C14_ReturnsLastAggregate ==
    <>(\/ raised.kind = "EvaluationError"
       \/ /\ pc = "done"
          /\ i = loops
          /\ dispatches = loops
          /\ commits = loops
          /\ raised = NoError
          /\ (loops = 0 =>
                /\ global_model.weights = InitialWeights
                /\ jobs = <<>>
                /\ \A e \in DOMAIN calls : calls[e] = 0)
          /\ (loops > 0 =>
                /\ average_weights # <<>>
                /\ global_model.weights = average_weights
                /\ \A k \in RoundTasks : TaskJob(k).round = loops - 1))

C14_Witness ==
    /\ pc = "done"
    /\ loops = 2
    /\ i = 2
    /\ can_evaluate
    /\ global_model.weights = average_weights

\* C15: every job of the round carries the snapshot taken when the round
\* started, architecture and weights, and while the round is dispatching and
\* collecting that snapshot is the model as the previous round committed it
\* (the initial model in the first round).
C15_JobsCarryRoundSnapshot ==
    /\ \A k \in RoundTasks :
          /\ TaskJob(k).global_model_weights = gm_weights_np
          /\ TaskJob(k).json_model_config = json_config
    /\ pc \in {"submit", "collect"} =>
          /\ gm_weights_np = global_model.weights
          /\ json_config = global_model.json
          /\ commits = i
          /\ \A k \in RoundTasks : TaskJob(k).round = i
    /\ (i = 0 /\ tasks # <<>>) => gm_weights_np = InitialWeights

C15_Witness ==
    /\ pc = "collect"
    /\ i = 1
    /\ Len(tasks) = 2
    /\ global_model.weights # InitialWeights
    /\ TaskJob(1).global_model_weights = global_model.weights
    /\ TaskJob(2).global_model_weights = global_model.weights

\* C16 as claimed: whenever an evaluation function is supplied, it has been
\* called once for every commit by the time the round's evaluation step is
\* over.
C16_EvaluateWheneverSupplied ==
    (evaluation_function # "None" /\ pc \in {"sleep", "loop", "done"})
    => evaluations = commits

\* C16, amended: when an evaluation function and the test data x_test and
\* y_test are supplied, the evaluation is called once in each round that
\* committed, after the commit and before the next dispatch, on the model
\* that holds the round's aggregate; it is not called in a round that did
\* not commit, and never when the test data or the function is missing.
C16_EvaluateOncePerCommit ==
    /\ [](/\ evaluations <= commits
           /\ (~can_evaluate => evaluations = 0)
           /\ (can_evaluate /\ pc \in {"submit", "collect", "commit"} =>
                  evaluations = i)
           /\ (can_evaluate /\ pc \in {"sleep", "loop", "done"} =>
                  evaluations = commits))
    /\ [][/\ (evaluations' # evaluations =>
                  /\ evaluations' = evaluations + 1
                  /\ evaluations = i
                  /\ commits = i + 1
                  /\ global_model.weights = average_weights
                  /\ global_model' = global_model)
           /\ (dispatches' # dispatches /\ can_evaluate =>
                  evaluations = commits)]_vars

C16_Witness ==
    /\ can_evaluate
    /\ pc = "sleep"
    /\ i = 1
    /\ evaluations = 2
    /\ commits = 2

\* C17: in every round that started each entry of endpoint_ids gets
\* exactly one submission, in list order; the submit loop never waits for a
\* job; no result is awaited before the whole list is submitted; and an
\* endpoint whose job of the round failed gets no further submission.
C17_OneSubmissionPerRound ==
    /\ [](/\ Len(jobs) = Len(tasks)
           /\ \A k \in RoundTasks :
                 tasks[k] = k /\ TaskJob(k).endpoint = endpoint_ids[k]
           /\ \A e \in 1..Len(endpoint_ids) :
                 calls[e] = (IF pc = "submit" /\ e > Len(tasks)
                             THEN dispatches - 1 ELSE dispatches)
           /\ (pc = "submit" => ENABLED Submit)
           /\ ((model_weights # <<>> \/ raised.kind = "RemoteError") =>
                  Len(tasks) = Len(endpoint_ids)))
    /\ [][\A k \in RoundTasks :
            TaskJob(k).state = "failed" =>
                calls'[TaskJob(k).endpoint] = calls[TaskJob(k).endpoint]]_vars

C17_Witness ==
    /\ pc = "aborted"
    /\ i = 1
    /\ Len(tasks) = 2
    /\ TaskJob(1).state = "failed"
    /\ calls[1] = 2
    /\ calls[2] = 2

\* C18: when the evaluation raises in a round, the run is aborted in that
\* round, after its commit and before its pause; the model holds the
\* aggregate the round committed, and from then on nothing is dispatched
\* and the model does not change.
C18_EvaluationFailureKeepsCommit ==
    /\ [](raised.kind = "EvaluationError" =>
            /\ pc = "aborted"
            /\ commits = i + 1
            /\ dispatches = i + 1
            /\ evaluations = i + 1
            /\ sleeps = i
            /\ average_weights # <<>>
            /\ global_model.weights = average_weights)
    /\ [][raised.kind = "EvaluationError" =>
            UNCHANGED <<pc, global_model, dispatches, commits, calls>>]_vars

C18_Witness ==
    /\ raised.kind = "EvaluationError"
    /\ i = 1
    /\ commits = 2
    /\ global_model.weights # gm_weights_np

\* C19 as claimed: a run that is over, by returning or by an exception, has
\* paused once for every round that committed.
C19_PauseEveryCommittedRound ==
    pc \in {"done", "aborted"} => sleeps = commits

\* C19, amended: time.sleep is called once in every round that committed and
\* whose evaluation step did not raise, after the commit and the evaluation
\* step, the last round included: a run that returns after `loops` rounds
\* has paused `loops` times, and its last pause is followed by no dispatch;
\* a round whose evaluation raises has committed and is not paused.
C19_PauseEveryRound ==
    /\ [](/\ sleeps = i
           /\ sleeps <= commits
           /\ commits <= sleeps + 1
           /\ (raised.kind # "EvaluationError" /\ pc \in {"done", "aborted"}
                  => sleeps = commits)
           /\ (raised.kind = "EvaluationError" => sleeps = commits - 1)
           /\ (pc = "done" =>
                  sleeps = loops /\ commits = loops /\ dispatches = loops))
    /\ [][sleeps' # sleeps =>
            /\ sleeps' = sleeps + 1
            /\ commits = sleeps + 1
            /\ (can_evaluate => evaluations = commits)
            /\ dispatches' = dispatches
            /\ global_model' = global_model]_vars

C19_Witness ==
    /\ pc = "done"
    /\ loops = 2
    /\ sleeps = 2
    /\ dispatches = 2

\* C20: no step changes the architecture of the model, the endpoint list,
\* the mode or the number of rounds; a commit replaces the weights by the
\* aggregate and changes nothing else of the run's data; a step that aborts
\* the run leaves the whole model as it is.
C20_CommitChangesOnlyWeights ==
    [][/\ global_model'.json = global_model.json
       /\ endpoint_ids' = endpoint_ids
       /\ federated_mode' = federated_mode
       /\ loops' = loops
       /\ (commits' # commits =>
              /\ global_model'.weights = average_weights
              /\ DOMAIN global_model' = DOMAIN global_model
              /\ UNCHANGED <<i, jobs, tasks, json_config, gm_weights_np,
                             calls, dispatches>>)
       /\ (global_model' # global_model => commits' = commits + 1)
       /\ (pc' = "aborted" => global_model' = global_model)]_vars

C20_Witness ==
    /\ pc = "aborted"
    /\ commits = 1
    /\ dispatches = 2
    /\ global_model.json = "arch"
    /\ global_model.weights = gm_weights_np
    /\ global_model.weights # InitialWeights

====
